---- MODULE Spec2Model ----
(***************************************************************************)
(* Verification model of the gonvme NVMe/TCP initiator layer.              *)
(*                                                                         *)
(* Strings are modelled as sequences of atoms.  An atom is a run of        *)
(* characters without white space ("trtype:", "tcp", "====="), the blank   *)
(* SP, or the line feed LF.  The empty Go string "" is the empty sequence. *)
(* strings.Split, strings.Fields and strings.Join are computed on these    *)
(* sequences as the Go library computes them on characters.                *)
(***************************************************************************)
EXTENDS Integers, Sequences, FiniteSets, TLC

VARIABLES
    c,           \* the caller's interface variables: slot -> instance
    GONVMEMock,  \* the shared fault-injection switches of the mock
    pc,          \* position of the current call: "idle", "running", "returned"
    op,          \* the operation of the current call
    self,        \* the slot whose instance the current call is made on
    arg,         \* the argument of the current call
    argv,        \* argument vector of the external process of the call
    invocations, \* external processes started by the current call
    stdout,      \* what the running external process has written
    procErr,     \* error value that cmd.Output() handed to the call
    result,      \* the sequence the call returned
    err          \* the error the call returned

vars == <<c, GONVMEMock, pc, op, self, arg, argv, invocations, stdout,
          procErr, result, err>>

-----------------------------------------------------------------------------
(* Bounds of the model *)

\* lines the environment writes one by one into a discovery output
MaxLines == 4
\* whole well-formed log entries the environment writes into a discovery output
MaxEntries == 3
\* largest cardinality a Mock instance is configured with, and longest device list
MaxCard == 2
\* fault switches that are set at the same time
MaxFaults == 1

-----------------------------------------------------------------------------
(* Strings *)

SP == " "
LF == "\n"
WhiteSpace == {SP, "\t"}

EmptyString == << >>

\* the pieces of s between the atoms of Seps, empty pieces included
RECURSIVE SplitOn(_, _)
SplitOn(s, Seps) ==
    IF \A i \in 1..Len(s) : s[i] \notin Seps
    THEN << s >>
    ELSE LET i == CHOOSE k \in 1..Len(s) :
                      /\ s[k] \in Seps
                      /\ \A j \in 1..(k - 1) : s[j] \notin Seps
         IN  << SubSeq(s, 1, i - 1) >> \o SplitOn(SubSeq(s, i + 1, Len(s)), Seps)

\* strings.Split(s, sep) for a one-atom separator
Split(s, sep) == SplitOn(s, {sep})

IsNonEmpty(t) == t # EmptyString

\* strings.Fields(s): the maximal runs of non-white-space
Fields(s) == SelectSeq(SplitOn(s, WhiteSpace), IsNonEmpty)

\* strings.Join(elems, sep)
RECURSIVE Join(_, _)
Join(elems, sep) ==
    IF Len(elems) = 0 THEN EmptyString
    ELSE IF Len(elems) = 1 THEN elems[1]
    ELSE elems[1] \o << sep >> \o Join(Tail(elems), sep)

\* strings.Contains(s, sub)
HasSubstring(s, sub) ==
    \E i \in 1..(Len(s) - Len(sub) + 1) : SubSeq(s, i, i + Len(sub) - 1) = sub

-----------------------------------------------------------------------------
(* Constants of the package *)

ChrootDirectory == "chrootDirectory"
NVMeCommand == << "nvme" >>
NVMePort == << "4420" >>
NVMeTransportTypeTCP == << "tcp" >>

\* exit status of "nvme connect" that means the connection already exists
ConnectionExistsCode == 114

-----------------------------------------------------------------------------
(* Error values *)

NilErr == [kind |-> "nil", sys |-> "none", exited |-> FALSE, code |-> 0,
           msg |-> EmptyString]

\* *exec.ExitError whose Sys() is a syscall.WaitStatus of a process that exited
ExitedError(n) == [kind |-> "ExitError", sys |-> "WaitStatus", exited |-> TRUE,
                   code |-> n, msg |-> << "exit", SP, "status" >>]

\* *exec.ExitError of a process that a signal ended: WaitStatus.Exited() is false
SignaledError == [kind |-> "ExitError", sys |-> "WaitStatus", exited |-> FALSE,
                  code |-> 0, msg |-> << "signal:", SP, "killed" >>]

\* *exec.ExitError whose Sys() is no syscall.WaitStatus: no status can be read
OpaqueExitError == [kind |-> "ExitError", sys |-> "other", exited |-> FALSE,
                    code |-> 0, msg |-> << "exit", SP, "status" >>]

\* an error that is no process exit: the command could not be started
StartError == [kind |-> "Error", sys |-> "none", exited |-> FALSE, code |-> 0,
               msg |-> << "exec:", SP, "not", SP, "found" >>]

\* exit statuses a failed process is given in the model
ExitCodes == {1, ConnectionExistsCode - 1, ConnectionExistsCode,
              ConnectionExistsCode + 1, 255}

\* every way cmd.Output() can end
ProcOutcomes == {NilErr, SignaledError, OpaqueExitError, StartError}
                    \cup {ExitedError(n) : n \in ExitCodes}

\* syscall.WaitStatus.ExitStatus(): -1 unless the process exited
ExitStatus(e) == IF e.exited THEN e.code ELSE -1

-----------------------------------------------------------------------------
(* Instances and the command builder *)

\* a Go map lookup: the zero value "" for a key the map does not hold
Lookup(m, key) == IF key \in DOMAIN m THEN m[key] ELSE EmptyString

\* the map[string]string{} literal
NoOptions == [k \in {} |-> EmptyString]

\* an interface variable that holds no instance yet
NoInstance == [impl |-> "nil", mock |-> FALSE, options |-> NoOptions]

\* mutant: the Real constructor sets the mock flag
NewNVMeTCP_MockFlag(opts) == [impl |-> "NVMeTCP", mock |-> TRUE, options |-> opts]

NewNVMeTCP(opts) == [impl |-> "NVMeTCP", mock |-> FALSE, options |-> opts]

isMock(i) == i.mock

getOptions(i) == i.options

\* mutant: an unset chrootDirectory is not replaced by "/"
getChrootDirectory_NoDefault(nvme) == Lookup(nvme.options, ChrootDirectory)

getChrootDirectory(nvme) ==
    LET s == Lookup(nvme.options, ChrootDirectory)
    IN  IF s = EmptyString THEN << "/" >> ELSE s

\* mutant: the command is never wrapped
buildNVMeCommand_NeverWraps(nvme, cmd) == cmd

buildNVMeCommand(nvme, cmd) ==
    IF getChrootDirectory(nvme) = << "/" >>
    THEN cmd
    ELSE << << "chroot" >>, getChrootDirectory(nvme) >> \o cmd

\* option maps the Real constructor is given in the model
RealOptionSets ==
    {NoOptions} \cup
    {(ChrootDirectory :> d) : d \in {EmptyString, << "/" >>, << "/", "test" >>}}

-----------------------------------------------------------------------------
(* NVMeTarget and the discovery parser *)

NVMeTarget(portal, nqn, trType, adrFam, subType, treq, portID, trsvcID, secType, targetType, hostAdr) ==
    [Portal |-> portal, TargetNqn |-> nqn, TrType |-> trType,
     AdrFam |-> adrFam, SubType |-> subType, Treq |-> treq,
     PortID |-> portID, TrsvcID |-> trsvcID, SecType |-> secType,
     TargetType |-> targetType, HostAdr |-> hostAdr]

\* the NVMeTarget{} literal
ZeroTarget ==
    NVMeTarget(EmptyString, EmptyString, EmptyString, EmptyString,
               EmptyString, EmptyString, EmptyString, EmptyString,
               EmptyString, EmptyString, EmptyString)

\* the loop's local variables before the first line
ParseStart == [targets |-> << >>, nvmeTarget |-> ZeroTarget,
               entryCount |-> 0, skipIteration |-> FALSE]

\* a header line appends the entry in progress
BoundaryAppends(st) == st.entryCount # 0 /\ ~st.skipIteration

\* mutant: the comparison with the transport type is inverted
TrtypeSkips_Inverted(value) == value = NVMeTransportTypeTCP

\* a trtype line marks the entry in progress as skipped
TrtypeSkips(value) == value # NVMeTransportTypeTCP

\* the keys of the switch that set one field, and the field each sets
FieldOfKey ==
    (<< "traddr:" >> :> "Portal") @@ (<< "subnqn:" >> :> "TargetNqn") @@
    (<< "adrfam:" >> :> "AdrFam") @@ (<< "subtype:" >> :> "SubType") @@
    (<< "treq:" >> :> "Treq") @@ (<< "portid:" >> :> "PortID") @@
    (<< "trsvcid:" >> :> "TrsvcID") @@ (<< "sectype:" >> :> "SecType")

\* mutant: a line is a header when it contains "Discovery Log Entry"
ParseLine_HeaderAnywhere(st, line) ==
    LET tokens == Fields(line)
    IN  IF HasSubstring(line, << "Discovery", SP, "Log", SP, "Entry" >>)
        THEN [targets |-> IF BoundaryAppends(st)
                          THEN Append(st.targets, st.nvmeTarget)
                          ELSE st.targets,
              nvmeTarget |-> ZeroTarget,
              entryCount |-> st.entryCount + 1,
              skipIteration |-> FALSE]
        ELSE IF Len(tokens) < 2 THEN st
        ELSE IF tokens[1] = << "trtype:" >>
        THEN [st EXCEPT !.nvmeTarget.TargetType = Join(Tail(tokens), SP),
                        !.skipIteration = IF TrtypeSkips(Join(Tail(tokens), SP))
                                          THEN TRUE ELSE @]
        ELSE IF tokens[1] \in DOMAIN FieldOfKey
        THEN [st EXCEPT !.nvmeTarget[FieldOfKey[tokens[1]]] = Join(Tail(tokens), SP)]
        ELSE st

\* one iteration of the loop over the lines
ParseLine(st, line) ==
    LET tokens == Fields(line)
    IN  IF Len(tokens) < 2 THEN st
        ELSE
        LET key == tokens[1]
            value == Join(Tail(tokens), SP)
        IN  IF key = << "=====", "Discovery" >>
            THEN [targets |-> IF BoundaryAppends(st)
                              THEN Append(st.targets, st.nvmeTarget)
                              ELSE st.targets,
                  nvmeTarget |-> ZeroTarget,
                  entryCount |-> st.entryCount + 1,
                  skipIteration |-> FALSE]
            ELSE IF key = << "trtype:" >>
            THEN [st EXCEPT !.nvmeTarget.TargetType = value,
                            !.skipIteration = IF TrtypeSkips(value)
                                              THEN TRUE ELSE @]
            ELSE IF key \in DOMAIN FieldOfKey
            THEN [st EXCEPT !.nvmeTarget[FieldOfKey[key]] = value]
            ELSE st

RECURSIVE ParseLoop(_, _)
ParseLoop(st, lines) ==
    IF Len(lines) = 0 THEN st
    ELSE ParseLoop(ParseLine(st, Head(lines)), Tail(lines))

\* mutant: the last entry is put in front of the others
FlushFinal_Prepends(st) ==
    IF ~st.skipIteration /\ st.nvmeTarget.TargetNqn # EmptyString
    THEN << st.nvmeTarget >> \o st.targets
    ELSE st.targets

\* after the loop: the entry in progress is appended or dropped
FlushFinal(st) ==
    IF ~st.skipIteration /\ st.nvmeTarget.TargetNqn # EmptyString
    THEN Append(st.targets, st.nvmeTarget)
    ELSE st.targets

\* the targets discoverNVMeTCPTargets returns for the output out
ParseDiscovery(out) == FlushFinal(ParseLoop(ParseStart, Split(out, LF)))

\* what discoverNVMeTCPTargets returns once cmd.Output() gave (out, e)
discoverNVMeTCPTargetsResult(out, e) ==
    IF e # NilErr
    THEN [targets |-> << >>, err |-> e]
    ELSE [targets |-> ParseDiscovery(out), err |-> NilErr]

-----------------------------------------------------------------------------
(* The copy of discoverNVMeTCPTargets in part_002 *)

\* the transport type the copy compares with
NVMeNVMeTransportTypeTCP == << "tcp" >>

\* a trtype line marks the entry in progress as skipped
TrtypeSkips_part002(value) == value = NVMeNVMeTransportTypeTCP

\* one iteration of the loop over the lines
ParseLine_part002(st, line) ==
    LET tokens == Fields(line)
    IN  IF Len(tokens) < 2 THEN st
        ELSE
        LET key == tokens[1]
            value == Join(Tail(tokens), SP)
        IN  IF key = << "=====", "Discovery" >>
            THEN [targets |-> IF st.entryCount # 0 /\ ~st.skipIteration
                              THEN Append(st.targets, st.nvmeTarget)
                              ELSE st.targets,
                  nvmeTarget |-> ZeroTarget,
                  entryCount |-> st.entryCount + 1,
                  skipIteration |-> FALSE]
            ELSE IF key = << "trtype:" >>
            THEN [st EXCEPT !.nvmeTarget.TargetType = value,
                            !.skipIteration = IF TrtypeSkips_part002(value)
                                              THEN TRUE ELSE @]
            ELSE IF key \in DOMAIN FieldOfKey
            THEN [st EXCEPT !.nvmeTarget[FieldOfKey[key]] = value]
            ELSE st

RECURSIVE ParseLoop_part002(_, _)
ParseLoop_part002(st, lines) ==
    IF Len(lines) = 0 THEN st
    ELSE ParseLoop_part002(ParseLine_part002(st, Head(lines)), Tail(lines))

\* after the loop: the entry in progress is appended
FlushFinal_part002(st) == Append(st.targets, st.nvmeTarget)

\* the targets the copy returns for the output out
ParseDiscovery_part002(out) ==
    FlushFinal_part002(ParseLoop_part002(ParseStart, Split(out, LF)))

\* what the copy returns once cmd.Output() gave (out, e)
discoverNVMeTCPTargetsResult_part002(out, e) ==
    IF e # NilErr
    THEN [targets |-> << >>, err |-> e]
    ELSE [targets |-> ParseDiscovery_part002(out), err |-> NilErr]

-----------------------------------------------------------------------------
(* Connect and disconnect *)

\* mutant: exit status 114 is an error like any other
nvmeConnectResult_NoIdempotence(e) == e

\* mutant: every process exit counts as "already connected"
nvmeConnectResult_SwallowsExit(e) == IF e.kind = "ExitError" THEN NilErr ELSE e

\* the error nvmeConnect returns once cmd.Output() gave the error e
nvmeConnectResult(e) ==
    IF e # NilErr
    THEN LET err1 ==
                 IF e.kind = "ExitError"
                 THEN LET status == IF e.sys = "WaitStatus"
                                    THEN ExitStatus(e) ELSE -1
                      IN  IF status = ConnectionExistsCode
                          THEN NilErr ELSE e
                 ELSE e
         IN  IF err1 # NilErr THEN err1 ELSE NilErr
    ELSE NilErr

\* mutant: disconnect treats exit status 114 as connect does
nvmeDisonnectResult_LikeConnect(e) ==
    IF e.kind = "ExitError" /\ e.sys = "WaitStatus" /\ ExitStatus(e) = ConnectionExistsCode
    THEN NilErr ELSE e

\* the error nvmeDisonnect returns once cmd.Output() gave the error e
nvmeDisonnectResult(e) == e

-----------------------------------------------------------------------------
(* Initiator names *)

DefaultInitiatorNameFile == << "/etc/nvme/hostnqn" >>

\* os.Stat and cmd.Output errors of getInitiators
NotExistError == [kind |-> "PathError", sys |-> "none", exited |-> FALSE, code |-> 0,
                  msg |-> << "no", SP, "such", SP, "file" >>]

\* the files of the host: path -> content
FileSystem ==
    (<< "testdata/initiatorname.nvme" >> :> << "nqn.1988-11.com.dell.mock:01", LF >>) @@
    (<< "testdata/multiple_nqn.nvme" >> :>
         << "nqn.1988-11.com.dell.mock:01", LF, "nqn.1988-11.com.dell.mock:02", LF >>) @@
    (<< "testdata/no_nqn.nvme" >> :> << LF >>) @@
    (DefaultInitiatorNameFile :> << "nqn.2014-08.org.nvmexpress:uuid:host", LF >>) @@
    (<< "/", "test", "/", "/etc/nvme/hostnqn" >> :>
         << "nqn.2014-08.org.nvmexpress:uuid:a", LF, LF, "nqn.2014-08.org.nvmexpress:uuid:b" >>)

\* the file names a caller hands to getInitiators
InitiatorFileNames ==
    { EmptyString, << "testdata/initiatorname.nvme" >>, << "testdata/multiple_nqn.nvme" >>,
      << "testdata/no_nqn.nvme" >>, << "testdata/missing.nvme" >> }

\* the one element of initiatorConfig
InitiatorConfig(nvme, filename) ==
    IF filename = EmptyString
    THEN IF getChrootDirectory(nvme) # << "/" >>
         THEN getChrootDirectory(nvme) \o << "/" >> \o DefaultInitiatorNameFile
         ELSE DefaultInitiatorNameFile
    ELSE filename

\* os.Stat(init)
Stat(path) == IF path \in DOMAIN FileSystem THEN NilErr ELSE NotExistError

\* what "cat init" can have written when cmd.Output() returns e
CatOutputs(path, e) ==
    IF e = NilErr THEN { FileSystem[path] }
    ELSE IF e.kind = "ExitError"
    THEN { SubSeq(FileSystem[path], 1, k) : k \in 0..Len(FileSystem[path]) }
    ELSE { EmptyString }

\* what getInitiators returns: statErr is the function's err variable, which
\* the err of cmd.Output() inside the loop does not assign
getInitiatorsResult(statErr, out) ==
    LET nqns == SelectSeq(Split(out, LF), IsNonEmpty)
    IN  IF Len(nqns) = 0
        THEN [nqns |-> nqns, err |-> statErr]
        ELSE [nqns |-> nqns, err |-> NilErr]

-----------------------------------------------------------------------------
(* The environment: callers' arguments and the external tool's output *)

\* the caller's interface variables
Slots == {"c1", "c2"}

Addresses == {<< "1.1.1.1" >>}

\* the target the tests connect to, and the NVMeTarget{} literal
TestTarget ==
    NVMeTarget(<< "1.1.1.1" >>, << "nqn.1988-11.com.dell.mock:00" >>,
               << "tcp" >>, << "ipv4" >>, << "nvme", SP, "subsystem" >>,
               << "not", SP, "specified" >>, << "0" >>, << "none" >>,
               << "none" >>, << "tcp" >>, EmptyString)

ConnectTargets == {TestTarget, ZeroTarget}

Digits == << "0", "1", "2", "3", "4", "5", "6", "7", "8", "9" >>

\* "key:  value"
KVLine(key, value) == << key, SP, SP >> \o value

\* "=====Discovery Log Entry n======"
HeaderLine(n) ==
    << "=====", "Discovery", SP, "Log", SP, "Entry", SP, Digits[n + 1], "======" >>

\* "Discovery Log Number of Records 2, Generation counter 2"
PreambleLine ==
    << "Discovery", SP, "Log", SP, "Number", SP, "of", SP, "Records", SP, "2,",
       SP, "Generation", SP, "counter", SP, "2" >>

TestNqn == << "nqn.1111-11.com.dell:powerstore:00:a1a1a1a111a1111a111a" >>

\* the lines the tool writes one at a time
LooseLines ==
    { HeaderLine(0),
      KVLine("trtype:", << "tcp" >>),
      KVLine("trtype:", << "fc" >>),
      KVLine("subnqn:", TestNqn),
      KVLine("traddr:", << "1.1.1.1" >>),
      EmptyString,
      PreambleLine }

\* lines around the header of a log entry, as a tool version may print them
HeaderVariantLines ==
    { HeaderLine(0),
      << SP, SP >> \o HeaderLine(1),
      << "Discovery", SP, "Log", SP, "Entry", SP, "0" >>,
      << "=====", SP, "Discovery", SP, "Log", SP, "Entry", SP, "0", SP, "=====" >>,
      << "=====", "Discovery", SP, "Information" >>,
      << "=====", "Discovery" >>,
      KVLine("subnqn:", TestNqn) }

\* the kinds of whole log entry the tool writes: transport and address
EntryKinds ==
    { [trtype |-> << "tcp" >>, adrfam |-> << "ipv4" >>, portid |-> << "2304" >>,
       trsvcid |-> << "4420" >>, traddr |-> << "1.1.1.1" >>],
      [trtype |-> << "tcp" >>, adrfam |-> << "ipv4" >>, portid |-> << "2305" >>,
       trsvcid |-> << "4420" >>, traddr |-> << "1.1.1.2" >>],
      [trtype |-> << "fc" >>, adrfam |-> << "fibre-channel" >>, portid |-> << "0" >>,
       trsvcid |-> << "none" >>,
       traddr |-> << "nn-0x11aaa111a1111a11:aa-0x11aaa11111111a11" >>] }

\* the lines of log entry n of kind k, as the tool prints them
EntryLines(n, k) ==
    << HeaderLine(n),
       KVLine("trtype:", k.trtype),
       KVLine("adrfam:", k.adrfam),
       << "subtype:", SP, "nvme", SP, "subsystem" >>,
       << "treq:", SP, SP, SP, SP, "not", SP, "specified" >>,
       KVLine("portid:", k.portid),
       << "trsvcid:", SP >> \o k.trsvcid,
       KVLine("subnqn:", TestNqn),
       KVLine("traddr:", k.traddr),
       EmptyString >>

\* lines, each ended by a line feed
RECURSIVE Text(_)
Text(lines) ==
    IF Len(lines) = 0 THEN EmptyString
    ELSE Head(lines) \o << LF >> \o Text(Tail(lines))

\* outputs that consist of n whole log entries after the preamble line
RECURSIVE EntryOutputs(_)
EntryOutputs(n) ==
    IF n = 0 THEN { Text(<< PreambleLine >>) }
    ELSE { o \o Text(EntryLines(n - 1, k)) : o \in EntryOutputs(n - 1), k \in EntryKinds }

\* the line feeds in out
NumLines(out) == Cardinality({ i \in 1..Len(out) : out[i] = LF })

-----------------------------------------------------------------------------
(* The Mock variant *)

MockNumberOfTCPTargets == "mockNumberOfTCPTargets"
MockNumberOfFCTargets == "mockNumberOfFCTargets"
MockNumberOfInitiators == "mockNumberOfInitiators"
MockNumberOfNamespaceDevices == "mockNumberOfNamespaceDevices"

NewMockNVMe(opts) == [impl |-> "MockNVMe", mock |-> TRUE, options |-> opts]

\* fmt.Sprintf("%d", n) for 0 <= n <= 9
Itoa(n) == << Digits[n + 1] >>

DigitValue(d) == CHOOSE n \in 0..9 : Digits[n + 1] = d

\* the number a string of decimal digits denotes
RECURSIVE Atoi(_)
Atoi(s) ==
    IF Len(s) = 0 THEN 0
    ELSE 10 * Atoi(SubSeq(s, 1, Len(s) - 1)) + DigitValue(s[Len(s)])

\* option maps the Mock constructor is given in the model
MockOptionSets ==
    {NoOptions} \cup
    { (MockNumberOfTCPTargets :> Itoa(n)) @@
      (MockNumberOfFCTargets :> Itoa(MaxCard - n)) @@
      (MockNumberOfNamespaceDevices :> Itoa(n)) : n \in 0..MaxCard }

\* GONVMEMock with every switch cleared
NoSwitches ==
    [InduceDiscoveryError |-> FALSE, InduceInitiatorError |-> FALSE,
     InduceTCPLoginError |-> FALSE, InduceFCLoginError |-> FALSE,
     InduceLogoutError |-> FALSE, InduceGetSessionsError |-> FALSE,
     InducedNVMeDeviceAndNamespaceError |-> FALSE,
     InducedNVMeNamespaceIDError |-> FALSE,
     InducedNVMeDeviceDataError |-> FALSE]

SwitchNames == DOMAIN NoSwitches

InducedError == [kind |-> "mock", sys |-> "none", exited |-> FALSE, code |-> 0,
                 msg |-> << "induced", SP, "error" >>]

\* the cardinalities a Mock instance may synthesize for the option key: the
\* configured number, or any number when the option is not configured
MockCardinalities(inst, key) ==
    IF key \in DOMAIN inst.options
    THEN {Atoi(inst.options[key])}
    ELSE 0..MaxCard

\* target i of a mock discovery of the transport trtype at address
MockTarget(i, trtype, address) ==
    NVMeTarget(address, << "nqn.1988-11.com.dell.mock:", Digits[i + 1] >>,
               trtype, EmptyString, EmptyString, EmptyString, EmptyString,
               EmptyString, EmptyString, trtype, EmptyString)

\* mutant: the discovery synthesizes one target too many
MockDiscoverResult_OneMore(switches, n, trtype, address) ==
    IF switches.InduceDiscoveryError
    THEN [targets |-> << >>, err |-> InducedError]
    ELSE [targets |-> [i \in 1..(n + 1) |-> MockTarget(i - 1, trtype, address)],
          err |-> NilErr]

\* what a mock discovery that synthesizes n targets returns
MockDiscoverResult(switches, n, trtype, address) ==
    IF switches.InduceDiscoveryError
    THEN [targets |-> << >>, err |-> InducedError]
    ELSE [targets |-> [i \in 1..n |-> MockTarget(i - 1, trtype, address)],
          err |-> NilErr]

\* device i of the mock
MockDevice(i) == [DevicePath |-> << "/dev/nvme", Digits[i + 1], "n1" >>,
                  Namespace |-> << Digits[i + 1] >>]

\* what the mock ListNVMeDeviceAndNamespace returns when it synthesizes n devices
MockListDeviceResult(switches, n) ==
    IF switches.InducedNVMeDeviceAndNamespaceError
    THEN [devices |-> << >>, err |-> InducedError]
    ELSE [devices |-> [i \in 1..n |-> MockDevice(i - 1)], err |-> NilErr]

\* mutant: the results come in reverse input order
MockListNamespaceIDResult_Reversed(switches, devices) ==
    IF switches.InducedNVMeNamespaceIDError
    THEN [ids |-> << >>, err |-> InducedError]
    ELSE [ids |-> [i \in 1..Len(devices) |->
                      [DevicePath |-> devices[Len(devices) + 1 - i].DevicePath,
                       NamespaceID |-> devices[Len(devices) + 1 - i].Namespace]],
          err |-> NilErr]

\* what the mock ListNVMeNamespaceID returns for the device list devices
MockListNamespaceIDResult(switches, devices) ==
    IF switches.InducedNVMeNamespaceIDError
    THEN [ids |-> << >>, err |-> InducedError]
    ELSE [ids |-> [i \in 1..Len(devices) |->
                      [DevicePath |-> devices[i].DevicePath,
                       NamespaceID |-> devices[i].Namespace]],
          err |-> NilErr]

\* mutant: the call never looks at its switch
MockOpResult_IgnoresSwitch(switches, name, value) == [value |-> value, err |-> NilErr]

\* what a mock call guarded by the switch name returns when it synthesizes value
MockOpResult(switches, name, value) ==
    IF switches[name]
    THEN [value |-> << >>, err |-> InducedError]
    ELSE [value |-> value, err |-> NilErr]

\* initiator i of the mock
MockInitiator(i) == << "nqn.1988-11.com.dell.mock:initiator:", Digits[i + 1] >>

\* the session the mock GetSessions reports
MockSession == [Target |-> << "nqn.1988-11.com.dell.mock:00:e6e2d5b871f1403E169D" >>,
                Portal |-> << "10.230.1.1:4420" >>,
                NVMESessionState |-> << "live" >>,
                NVMETransportName |-> << "tcp" >>]

\* device lists a caller hands to ListNVMeNamespaceID
RECURSIVE DeviceLists(_)
DeviceLists(n) ==
    IF n = 0 THEN { << >> }
    ELSE DeviceLists(n - 1) \cup
         { Append(l, MockDevice(i)) : l \in DeviceLists(n - 1), i \in 0..1 }

\* command vectors a caller hands to buildNVMeCommand
Commands == { << >>, << << "/bin/ls" >> >>, << NVMeCommand, << "list" >> >> }

-----------------------------------------------------------------------------
(* State machine *)

\* no call in progress
IdleCall ==
    /\ pc = "idle"
    /\ op = "none"
    /\ self = "c1"
    /\ arg = << >>
    /\ argv = << >>
    /\ invocations = 0
    /\ stdout = EmptyString
    /\ procErr = NilErr
    /\ result = << >>
    /\ err = NilErr

Init ==
    /\ c = [s \in Slots |-> NoInstance]
    /\ GONVMEMock = NoSwitches
    /\ IdleCall

\* c = NewNVMeTCP(opts)
NewReal(s, opts) ==
    /\ pc = "idle"
    /\ c' = [c EXCEPT ![s] = NewNVMeTCP(opts)]
    /\ UNCHANGED <<GONVMEMock, pc, op, self, arg, argv, invocations, stdout,
                   procErr, result, err>>

\* exec.Command(exe[0], exe[1:]...) followed by cmd.Output(): the call starts
\* one external process and blocks until it has ended
StartProcess(s, o, a, exe) ==
    /\ pc = "idle"
    /\ c[s].impl = "NVMeTCP"
    /\ pc' = "running"
    /\ op' = o
    /\ self' = s
    /\ arg' = a
    /\ argv' = exe
    /\ invocations' = invocations + 1
    /\ UNCHANGED <<c, GONVMEMock, stdout, procErr, result, err>>

\* mutant: a failed process is run a second time before the call returns
EndProcess_Retries(o, e, r, ret) ==
    /\ pc = "running"
    /\ op = o
    /\ IF e # NilErr /\ invocations < 2
       THEN /\ invocations' = invocations + 1
            /\ UNCHANGED <<pc, procErr, result, err>>
       ELSE /\ pc' = "returned"
            /\ procErr' = e
            /\ result' = r
            /\ err' = ret
            /\ UNCHANGED invocations
    /\ UNCHANGED <<c, GONVMEMock, op, self, arg, argv, stdout>>

\* the call returns (r, e) when its process ended with e
EndProcess(o, e, r, ret) ==
    /\ pc = "running"
    /\ op = o
    /\ pc' = "returned"
    /\ procErr' = e
    /\ result' = r
    /\ err' = ret
    /\ UNCHANGED <<c, GONVMEMock, op, self, arg, argv, invocations, stdout>>

discoverNVMeTCPTargetsCall(s, address) ==
    StartProcess(s, "discover", address,
                 buildNVMeCommand(c[s], << NVMeCommand, << "discover" >>, << "-t" >>,
                                            << "tcp" >>, << "-a" >>, address,
                                            << "-s" >>, NVMePort >>))

discoverNVMeTCPTargetsReturn(e) ==
    LET r == discoverNVMeTCPTargetsResult(stdout, e)
    IN  EndProcess("discover", e, r.targets, r.err)

nvmeConnectCall(s, target) ==
    StartProcess(s, "connect", target,
                 buildNVMeCommand(c[s], << NVMeCommand, << "connect" >>, << "-t" >>,
                                            << "tcp" >>, << "-n" >>, target.TargetNqn,
                                            << "-a" >>, target.Portal,
                                            << "-s" >>, NVMePort >>))

nvmeConnectReturn(e) == EndProcess("connect", e, << >>, nvmeConnectResult(e))

nvmeDisonnectCall(s, target) ==
    StartProcess(s, "disconnect", target,
                 buildNVMeCommand(c[s], << NVMeCommand, << "disconnect" >>, << "-n" >>,
                                            target.TargetNqn >>))

nvmeDisonnectReturn(e) == EndProcess("disconnect", e, << >>, nvmeDisonnectResult(e))

\* the calls that run "nvme discover": discoverNVMeTCPTargets and its copy
DiscoverOps == {"discover", "discover_part002"}

\* the running "nvme discover" writes one more line
ToolWritesLine(line) ==
    /\ pc = "running"
    /\ op \in DiscoverOps
    /\ NumLines(stdout) < MaxLines
    /\ stdout' = stdout \o line \o << LF >>
    /\ UNCHANGED <<c, GONVMEMock, pc, op, self, arg, argv, invocations,
                   procErr, result, err>>

\* the running "nvme discover" writes the preamble or one more whole log entry
ToolWritesEntry(k) ==
    /\ pc = "running"
    /\ op \in DiscoverOps
    /\ \/ /\ stdout = EmptyString
          /\ stdout' = Text(<< PreambleLine >>)
       \/ \E n \in 0..(MaxEntries - 1) :
              /\ stdout \in EntryOutputs(n)
              /\ stdout' = stdout \o Text(EntryLines(n, k))
    /\ UNCHANGED <<c, GONVMEMock, pc, op, self, arg, argv, invocations,
                   procErr, result, err>>

\* the caller takes the returned values; the next call can start
CallerContinues ==
    /\ pc = "returned"
    /\ pc' = "idle"
    /\ op' = "none"
    /\ self' = "c1"
    /\ arg' = << >>
    /\ argv' = << >>
    /\ invocations' = 0
    /\ stdout' = EmptyString
    /\ procErr' = NilErr
    /\ result' = << >>
    /\ err' = NilErr
    /\ UNCHANGED <<c, GONVMEMock>>

\* c = NewMockNVMe(opts)
NewMock(s, opts) ==
    /\ pc = "idle"
    /\ c' = [c EXCEPT ![s] = NewMockNVMe(opts)]
    /\ UNCHANGED <<GONVMEMock, pc, op, self, arg, argv, invocations, stdout,
                   procErr, result, err>>

\* a call that runs no external process and returns (r, e) at once
DirectCall(s, impl, o, a, r, e) ==
    /\ pc = "idle"
    /\ c[s].impl = impl
    /\ pc' = "returned"
    /\ op' = o
    /\ self' = s
    /\ arg' = a
    /\ result' = r
    /\ err' = e
    /\ UNCHANGED <<c, GONVMEMock, argv, invocations, stdout, procErr>>

\* c.buildNVMeCommand(cmd), as the tests call it
buildNVMeCommandCall(s, cmd) ==
    DirectCall(s, "NVMeTCP", "build", cmd, buildNVMeCommand(c[s], cmd), NilErr)

MockDiscoverNVMeTCPTargets(s, address) ==
    \E n \in MockCardinalities(c[s], MockNumberOfTCPTargets) :
        LET r == MockDiscoverResult(GONVMEMock, n, << "tcp" >>, address)
        IN  DirectCall(s, "MockNVMe", "mockDiscoverTCP", address, r.targets, r.err)

MockDiscoverNVMeFCTargets(s, address) ==
    \E n \in MockCardinalities(c[s], MockNumberOfFCTargets) :
        LET r == MockDiscoverResult(GONVMEMock, n, << "fc" >>, address)
        IN  DirectCall(s, "MockNVMe", "mockDiscoverFC", address, r.targets, r.err)

MockListNVMeDeviceAndNamespace(s) ==
    \E n \in MockCardinalities(c[s], MockNumberOfNamespaceDevices) :
        LET r == MockListDeviceResult(GONVMEMock, n)
        IN  DirectCall(s, "MockNVMe", "mockListDevices", << >>, r.devices, r.err)

MockListNVMeNamespaceID(s, devices) ==
    LET r == MockListNamespaceIDResult(GONVMEMock, devices)
    IN  DirectCall(s, "MockNVMe", "mockListNamespaceID", devices, r.ids, r.err)

\* a mock call of the operation o, guarded by the switch name
MockCall(s, o, name, a, value) ==
    LET r == MockOpResult(GONVMEMock, name, value)
    IN  DirectCall(s, "MockNVMe", o, a, r.value, r.err)

MockGetInitiators(s) ==
    \E n \in MockCardinalities(c[s], MockNumberOfInitiators) :
        MockCall(s, "mockGetInitiators", "InduceInitiatorError", EmptyString,
                 [i \in 1..n |-> MockInitiator(i - 1)])

MockNVMeTCPConnect(s, target) ==
    MockCall(s, "mockTCPConnect", "InduceTCPLoginError", target, << >>)

MockNVMeFCConnect(s, target) ==
    MockCall(s, "mockFCConnect", "InduceFCLoginError", target, << >>)

MockNVMeDisconnect(s, target) ==
    MockCall(s, "mockDisconnect", "InduceLogoutError", target, << >>)

MockGetSessions(s) ==
    MockCall(s, "mockGetSessions", "InduceGetSessionsError", << >>, << MockSession >>)

MockDeviceRescan(s) ==
    MockCall(s, "mockDeviceRescan", "InduceGetSessionsError", << "testDevice" >>, << >>)

MockGetNVMeDeviceData(s) ==
    MockCall(s, "mockGetDeviceData", "InducedNVMeDeviceDataError",
             << "/nvmeMock/0n1" >>, << >>)

\* GONVMEMock.<name> = b
SetSwitch(name, b) ==
    /\ pc = "idle"
    /\ b => Cardinality({ n \in SwitchNames : GONVMEMock[n] }) < MaxFaults
    /\ GONVMEMock' = [GONVMEMock EXCEPT ![name] = b]
    /\ UNCHANGED <<c, pc, op, self, arg, argv, invocations, stdout, procErr,
                   result, err>>

reset ==
    /\ pc = "idle"
    /\ GONVMEMock' = NoSwitches
    /\ UNCHANGED <<c, pc, op, self, arg, argv, invocations, stdout, procErr,
                   result, err>>

\* construction, the calls of both variants, and the fault switches
Next ==
    \/ \E s \in Slots, opts \in RealOptionSets : NewReal(s, opts)
    \/ \E s \in Slots, opts \in MockOptionSets : NewMock(s, opts)
    \/ \E s \in Slots, cmd \in Commands : buildNVMeCommandCall(s, cmd)
    \/ \E s \in Slots, a \in Addresses : discoverNVMeTCPTargetsCall(s, a)
    \/ \E e \in ProcOutcomes : discoverNVMeTCPTargetsReturn(e)
    \/ \E s \in Slots, t \in ConnectTargets : nvmeConnectCall(s, t)
    \/ \E e \in ProcOutcomes : nvmeConnectReturn(e)
    \/ \E s \in Slots, t \in ConnectTargets : nvmeDisonnectCall(s, t)
    \/ \E e \in ProcOutcomes : nvmeDisonnectReturn(e)
    \/ \E s \in Slots, a \in Addresses : MockDiscoverNVMeTCPTargets(s, a)
    \/ \E s \in Slots, a \in Addresses : MockDiscoverNVMeFCTargets(s, a)
    \/ \E s \in Slots : MockListNVMeDeviceAndNamespace(s)
    \/ \E s \in Slots, d \in DeviceLists(MaxCard) : MockListNVMeNamespaceID(s, d)
    \/ \E s \in Slots : MockGetInitiators(s)
    \/ \E s \in Slots : MockNVMeTCPConnect(s, TestTarget)
    \/ \E s \in Slots : MockNVMeFCConnect(s, TestTarget)
    \/ \E s \in Slots : MockNVMeDisconnect(s, TestTarget)
    \/ \E s \in Slots : MockGetSessions(s)
    \/ \E s \in Slots : MockDeviceRescan(s)
    \/ \E s \in Slots : MockGetNVMeDeviceData(s)
    \/ \E n \in SwitchNames, b \in BOOLEAN : SetSwitch(n, b)
    \/ reset
    \/ CallerContinues

Spec == Init /\ [][Next]_vars

\* discovery on one Real instance, with the output of the tool explored
InitParse ==
    /\ c = [s \in Slots |-> IF s = "c1" THEN NewNVMeTCP(NoOptions) ELSE NoInstance]
    /\ GONVMEMock = NoSwitches
    /\ IdleCall

NextParse ==
    \/ \E a \in Addresses : discoverNVMeTCPTargetsCall("c1", a)
    \/ \E line \in LooseLines : ToolWritesLine(line)
    \/ \E k \in EntryKinds : ToolWritesEntry(k)
    \/ \E e \in {NilErr, ExitedError(1)} : discoverNVMeTCPTargetsReturn(e)
    \/ CallerContinues

SpecParse == InitParse /\ [][NextParse]_vars

-----------------------------------------------------------------------------
(* The two copies of discoverNVMeTCPTargets, on the same outputs *)

discoverNVMeTCPTargetsCall_part002(s, address) ==
    StartProcess(s, "discover_part002", address,
                 buildNVMeCommand(c[s], << NVMeCommand, << "discover" >>, << "-t" >>,
                                            << "tcp" >>, << "-a" >>, address,
                                            << "-s" >>, NVMePort >>))

discoverNVMeTCPTargetsReturn_part002(e) ==
    LET r == discoverNVMeTCPTargetsResult_part002(stdout, e)
    IN  EndProcess("discover_part002", e, r.targets, r.err)

NextCopies ==
    \/ \E a \in Addresses : discoverNVMeTCPTargetsCall("c1", a)
    \/ \E a \in Addresses : discoverNVMeTCPTargetsCall_part002("c1", a)
    \/ \E line \in LooseLines : ToolWritesLine(line)
    \/ \E k \in EntryKinds : ToolWritesEntry(k)
    \/ \E e \in {NilErr, ExitedError(1)} : discoverNVMeTCPTargetsReturn(e)
    \/ \E e \in {NilErr, ExitedError(1)} : discoverNVMeTCPTargetsReturn_part002(e)
    \/ CallerContinues

SpecCopies == InitParse /\ [][NextCopies]_vars

-----------------------------------------------------------------------------
(* discoverNVMeTCPTargets on outputs with variants of the header line *)

NextHeaders ==
    \/ \E a \in Addresses : discoverNVMeTCPTargetsCall("c1", a)
    \/ \E line \in HeaderVariantLines : ToolWritesLine(line)
    \/ \E e \in {NilErr, ExitedError(1)} : discoverNVMeTCPTargetsReturn(e)
    \/ CallerContinues

SpecHeaders == InitParse /\ [][NextHeaders]_vars

-----------------------------------------------------------------------------
(* The Real variant alone, with the initiator-name files *)

getInitiatorsCall(s, filename) ==
    LET init == InitiatorConfig(c[s], filename)
    IN  IF Stat(init) # NilErr
        THEN DirectCall(s, "NVMeTCP", "getInitiators", filename, << >>, Stat(init))
        ELSE StartProcess(s, "getInitiators", filename, << << "cat" >>, init >>)

getInitiatorsReturn(e, out) ==
    /\ pc = "running"
    /\ op = "getInitiators"
    /\ out \in CatOutputs(InitiatorConfig(c[self], arg), e)
    /\ pc' = "returned"
    /\ procErr' = e
    /\ stdout' = out
    /\ result' = getInitiatorsResult(NilErr, out).nqns
    /\ err' = getInitiatorsResult(NilErr, out).err
    /\ UNCHANGED <<c, GONVMEMock, op, self, arg, argv, invocations>>

\* every output "cat" can have written, whatever the file
AllCatOutputs ==
    UNION { CatOutputs(p, e) : p \in DOMAIN FileSystem, e \in ProcOutcomes }

NextReal ==
    \/ \E s \in Slots, opts \in RealOptionSets : NewReal(s, opts)
    \/ \E s \in Slots, a \in Addresses : discoverNVMeTCPTargetsCall(s, a)
    \/ \E e \in ProcOutcomes : discoverNVMeTCPTargetsReturn(e)
    \/ \E s \in Slots, t \in ConnectTargets : nvmeConnectCall(s, t)
    \/ \E e \in ProcOutcomes : nvmeConnectReturn(e)
    \/ \E s \in Slots, t \in ConnectTargets : nvmeDisonnectCall(s, t)
    \/ \E e \in ProcOutcomes : nvmeDisonnectReturn(e)
    \/ \E s \in Slots, f \in InitiatorFileNames : getInitiatorsCall(s, f)
    \/ \E e \in ProcOutcomes, out \in AllCatOutputs : getInitiatorsReturn(e, out)
    \/ CallerContinues

SpecReal == Init /\ [][NextReal]_vars

-----------------------------------------------------------------------------
(* Vocabulary of the claims about the discovery output *)

Returned(o) == pc = "returned" /\ op = o

\* the process of the current call ended with exit status n
ExitedWith(n) ==
    /\ procErr.kind = "ExitError"
    /\ procErr.sys = "WaitStatus"
    /\ procErr.exited
    /\ procErr.code = n

OutputLines(out) == Split(out, LF)

\* the line opens with "=====Discovery Log Entry"
IsHeaderLine(l) ==
    /\ Len(l) >= 6
    /\ SubSeq(l, 1, 6) = << "=====", "Discovery", SP, "Log", SP, "Entry" >>

\* the line reads "key value..." with the given key and a value
IsKeyLine(l, key) == Len(Fields(l)) >= 2 /\ Fields(l)[1] = << key >>

ValueOfLine(l) == Join(Tail(Fields(l)), SP)

EntryKeys == {"trtype:", "traddr:", "subnqn:", "adrfam:", "subtype:", "treq:",
              "portid:", "trsvcid:", "sectype:"}

HeaderIndexes(ls) == { i \in 1..Len(ls) : IsHeaderLine(ls[i]) }

\* the lines of the entry that the header at i opens
EntryBody(ls, i) ==
    { j \in (i + 1)..Len(ls) : \A h \in HeaderIndexes(ls) : h <= i \/ h > j }

KeyLinesOf(ls, i, key) == { j \in EntryBody(ls, i) : IsKeyLine(ls[j], key) }

\* every entry opens with a header and carries its trtype, a subnqn and a
\* traddr; no key/value line stands outside an entry
WellFormedOutput(out) ==
    LET ls == OutputLines(out)
    IN  /\ \A j \in 1..Len(ls) :
               (\A h \in HeaderIndexes(ls) : j < h) =>
                   \A key \in EntryKeys : ~IsKeyLine(ls[j], key)
        /\ \A i \in HeaderIndexes(ls) :
               /\ Cardinality(KeyLinesOf(ls, i, "trtype:")) = 1
               /\ KeyLinesOf(ls, i, "subnqn:") # {}
               /\ KeyLinesOf(ls, i, "traddr:") # {}

\* the entries of out whose trtype is tcp
TcpEntries(out) ==
    LET ls == OutputLines(out)
    IN  { i \in HeaderIndexes(ls) :
              \E j \in KeyLinesOf(ls, i, "trtype:") :
                  ValueOfLine(ls[j]) = << "tcp" >> }

OtherEntries(out) == HeaderIndexes(OutputLines(out)) \ TcpEntries(out)

\* out is empty or holds header lines only
HeaderOnlyOutput(out) ==
    \/ out = EmptyString
    \/ LET ls == OutputLines(out)
       IN  \A i \in 1..Len(ls) :
               IsHeaderLine(ls[i]) \/ (i = Len(ls) /\ ls[i] = EmptyString)

Populated(t) == t.TargetNqn # EmptyString /\ t.Portal # EmptyString

Contains(s, atom) == \E i \in 1..Len(s) : s[i] = atom

-----------------------------------------------------------------------------
(* Claims *)

\* C1: for a well-formed discovery output with K tcp entries and M entries of
\* other transports, discoverNVMeTCPTargets returns exactly K targets, each
\* with a non-empty TargetNqn and a non-empty Portal.
\* Well-formed: each entry carries one trtype line, so that its transport is
\* defined, and at least one subnqn and one traddr line, each with a value.
C1_WellFormedYieldsTcpEntries ==
    (Returned("discover") /\ procErr = NilErr /\ WellFormedOutput(stdout)) =>
        /\ err = NilErr
        /\ Len(result) = Cardinality(TcpEntries(stdout))
        /\ \A i \in 1..Len(result) : Populated(result[i])

\* a tcp entry, then an entry of another transport, then a tcp entry
C1_Witness ==
    /\ Returned("discover") /\ procErr = NilErr /\ WellFormedOutput(stdout)
    /\ Cardinality(TcpEntries(stdout)) = 2
    /\ \E m \in OtherEntries(stdout) :
           \E a, b \in TcpEntries(stdout) : a < m /\ m < b
    /\ Len(result) = 2

\* C2: when the command succeeds and its output is empty or holds header
\* lines only, discoverNVMeTCPTargets returns no target and a nil error.
C2_HeaderOnlyYieldsNothing ==
    (Returned("discover") /\ procErr = NilErr /\ HeaderOnlyOutput(stdout)) =>
        (result = << >> /\ err = NilErr)

\* C3: every target discoverNVMeTCPTargets returns, whatever the output, has
\* its TargetNqn and its Portal populated.
C3_ReturnedTargetsPopulated ==
    Returned("discover") => \A i \in 1..Len(result) : Populated(result[i])

\* C4: nvmeConnect returns nil when "nvme connect" exits with status 114 and
\* when it exits with status 0.
C4_ConnectIdempotent ==
    (Returned("connect") /\ (procErr = NilErr \/ ExitedWith(ConnectionExistsCode)))
        => err = NilErr

C4_Witness ==
    Returned("connect") /\ ExitedWith(ConnectionExistsCode) /\ err = NilErr

\* C5: in every failing case other than exit status 114, nvmeConnect returns
\* the error of the invocation, unmodified.
C5_ConnectPropagatesFailure ==
    (Returned("connect") /\ procErr # NilErr /\ ~ExitedWith(ConnectionExistsCode))
        => (err # NilErr /\ err = procErr)

\* an exit whose status cannot be read
C5_Witness ==
    /\ Returned("connect")
    /\ procErr.kind = "ExitError" /\ procErr.sys # "WaitStatus"
    /\ err = procErr

\* C6: exit status 114 is success only inside nvmeConnect: nvmeDisonnect
\* returns an error exactly when its invocation fails, and
\* discoverNVMeTCPTargets returns no target and the invocation's error for
\* every failing invocation.
C6_OnlyConnectReinterprets ==
    /\ Returned("disconnect") => (err = procErr /\ (err # NilErr <=> procErr # NilErr))
    /\ (Returned("discover") /\ procErr # NilErr) => (result = << >> /\ err = procErr)

C6_Witness ==
    Returned("disconnect") /\ ExitedWith(ConnectionExistsCode) /\ err # NilErr

\* C7: an instance of the Real constructor reports isMock() = false, one of
\* the Mock constructor reports isMock() = true, and no step of an operation
\* changes the mock flag of an instance.
C7_MockFlagFollowsConstructor ==
    /\ [](\A s \in Slots :
             /\ c[s].impl = "NVMeTCP" => ~isMock(c[s])
             /\ c[s].impl = "MockNVMe" => isMock(c[s]))
    /\ [][(pc # "idle" \/ pc' # "idle") =>
              \A s \in Slots : isMock(c'[s]) = isMock(c[s])]_vars

\* a Real and a Mock instance side by side, after a call on the Real one
C7_Witness ==
    /\ \E s, t \in Slots : c[s].impl = "NVMeTCP" /\ c[t].impl = "MockNVMe"
    /\ pc = "returned" /\ c[self].impl = "NVMeTCP" /\ ~isMock(c[self])

\* the mock discovery calls and the option key of each
MockDiscoverKey ==
    ("mockDiscoverTCP" :> MockNumberOfTCPTargets) @@
    ("mockDiscoverFC" :> MockNumberOfFCTargets)

\* C8: a Mock instance configured with cardinality N returns exactly N targets
\* and a nil error from a discovery when InduceDiscoveryError is false, and no
\* target and an error containing "induced" when it is true.
C8_MockDiscoveryCardinality ==
    \A o \in DOMAIN MockDiscoverKey :
        (Returned(o) /\ MockDiscoverKey[o] \in DOMAIN c[self].options) =>
            IF GONVMEMock.InduceDiscoveryError
            THEN Len(result) = 0 /\ Contains(err.msg, "induced")
            ELSE /\ Len(result) = Atoi(c[self].options[MockDiscoverKey[o]])
                 /\ err = NilErr

\* N targets without the fault
C8_Witness ==
    /\ Returned("mockDiscoverTCP")
    /\ MockNumberOfTCPTargets \in DOMAIN c[self].options
    /\ ~GONVMEMock.InduceDiscoveryError
    /\ Len(result) = MaxCard

\* C9: the mock ListNVMeNamespaceID returns, for a device list of length D,
\* D results in input order and a nil error when InducedNVMeNamespaceIDError is
\* false, and no result and an error containing "induced" when it is true.
C9_MockNamespaceIDs ==
    Returned("mockListNamespaceID") =>
        IF GONVMEMock.InducedNVMeNamespaceIDError
        THEN Len(result) = 0 /\ Contains(err.msg, "induced")
        ELSE /\ Len(result) = Len(arg)
             /\ \A i \in 1..Len(arg) : result[i].DevicePath = arg[i].DevicePath
             /\ err = NilErr

\* two different devices, the later one first
C9_Witness ==
    /\ Returned("mockListNamespaceID")
    /\ ~GONVMEMock.InducedNVMeNamespaceIDError
    /\ Len(arg) = 2 /\ arg[1] = MockDevice(1) /\ arg[2] = MockDevice(0)
    /\ Len(result) = 2

\* C10: buildNVMeCommand(cmd) returns "chroot", dir and then cmd when the
\* chrootDirectory option dir is set to something other than "" and "/", and
\* cmd unchanged when the option is absent, "" or "/".
C10_BuildCommand ==
    Returned("build") =>
        LET opts == c[self].options
        IN  IF \/ ChrootDirectory \notin DOMAIN opts
               \/ opts[ChrootDirectory] \in {EmptyString, << "/" >>}
            THEN result = arg
            ELSE /\ Len(result) = Len(arg) + 2
                 /\ result[1] = << "chroot" >>
                 /\ result[2] = opts[ChrootDirectory]
                 /\ SubSeq(result, 3, Len(result)) = arg

C10_Witness ==
    /\ Returned("build")
    /\ ChrootDirectory \in DOMAIN c[self].options
    /\ c[self].options[ChrootDirectory] = << "/", "test" >>
    /\ arg = << << "/bin/ls" >> >>
    /\ Len(result) = 3

\* the file getInitiators reads in the current call
InitiatorFile == InitiatorConfig(c[self], arg)

\* C11: for an existing initiator-name file, getInitiators returns one NQN per
\* non-empty line of the file, in file order, and a nil error; a file with no
\* non-empty line yields an empty list and a nil error.
C11_InitiatorsOfExistingFile ==
    (Returned("getInitiators") /\ InitiatorFile \in DOMAIN FileSystem) =>
        /\ result = SelectSeq(Split(FileSystem[InitiatorFile], LF), IsNonEmpty)
        /\ err = NilErr

\* the mock operations and the switch of the family of each
MockSwitchOf ==
    ("mockDiscoverTCP" :> "InduceDiscoveryError") @@
    ("mockDiscoverFC" :> "InduceDiscoveryError") @@
    ("mockGetInitiators" :> "InduceInitiatorError") @@
    ("mockTCPConnect" :> "InduceTCPLoginError") @@
    ("mockFCConnect" :> "InduceFCLoginError") @@
    ("mockDisconnect" :> "InduceLogoutError") @@
    ("mockGetSessions" :> "InduceGetSessionsError") @@
    ("mockDeviceRescan" :> "InduceGetSessionsError") @@
    ("mockListDevices" :> "InducedNVMeDeviceAndNamespaceError") @@
    ("mockListNamespaceID" :> "InducedNVMeNamespaceIDError") @@
    ("mockGetDeviceData" :> "InducedNVMeDeviceDataError")

\* C12: after any sequence of switch toggles, reset() calls and calls on any
\* Mock instance, a mock operation returns an error containing "induced"
\* exactly when the switch of its own family is set at the call, and a nil
\* error otherwise.
C12_InducedIffOwnSwitch ==
    \A o \in DOMAIN MockSwitchOf :
        Returned(o) =>
            /\ Contains(err.msg, "induced") <=> GONVMEMock[MockSwitchOf[o]]
            /\ ~GONVMEMock[MockSwitchOf[o]] => err = NilErr

\* only InduceLogoutError is set, two Mock instances exist, and the
\* disconnect on the second fails
C12_Witness ==
    /\ Returned("mockDisconnect")
    /\ GONVMEMock = [NoSwitches EXCEPT !.InduceLogoutError = TRUE]
    /\ \A s \in Slots : c[s].impl = "MockNVMe"
    /\ self = "c2"
    /\ Contains(err.msg, "induced")

\* a process of the call op has been started
Started(o) == pc \in {"running", "returned"} /\ op = o /\ invocations > 0

\* the instance of the call has a root other than the default
NonDefaultRoot == getChrootDirectory(c[self]) # << "/" >>

\* the command line begins with the chroot wrapper of the instance
BeginsWithChroot ==
    /\ Len(argv) >= 2
    /\ SubSeq(argv, 1, 2) = << << "chroot" >>, getChrootDirectory(c[self]) >>

\* C13 as stated: under a non-default chrootDirectory every external command
\* of the Real variant, the read of the initiator-name file included, has an
\* argv beginning ["chroot", dir].
C13_EveryCommandChrooted ==
    \A o \in {"discover", "connect", "disconnect", "getInitiators"} :
        (Started(o) /\ NonDefaultRoot) => BeginsWithChroot

\* C13: under a non-default chrootDirectory the nvme discover, connect and
\* disconnect commands have an argv beginning ["chroot", dir]; getInitiators
\* runs "cat" on the file without the wrapper, the file being the default one
\* under the root when no filename is given and the given filename otherwise.
C13_NvmeCommandsChrooted ==
    /\ \A o \in {"discover", "connect", "disconnect"} :
           (Started(o) /\ NonDefaultRoot) =>
               /\ BeginsWithChroot
               /\ argv[3] = NVMeCommand
               /\ argv[4] = << o >>
    /\ (Started("getInitiators") /\ NonDefaultRoot) =>
           /\ argv[1] = << "cat" >>
           /\ Len(argv) = 2
           /\ argv[2] = IF arg = EmptyString
                        THEN getChrootDirectory(c[self]) \o << "/" >> \o
                             DefaultInitiatorNameFile
                        ELSE arg

\* an nvme connect under the root /test
C13_Witness ==
    /\ Started("connect")
    /\ getChrootDirectory(c[self]) = << "/", "test" >>
    /\ argv[1] = << "chroot" >>
    /\ pc = "returned"

\* the lines that open a log entry: "=====Discovery" and something after it
EntryStarts(ls) ==
    { i \in 1..Len(ls) : /\ Len(Fields(ls[i])) >= 2
                         /\ Fields(ls[i])[1] = << "=====", "Discovery" >> }

\* the entries of an output whose entries open at the lines starts, in the
\* order of their lines; 0 stands for the lines before the first entry
Entries(starts) == {0} \cup starts

LinesOfEntry(ls, starts, i) ==
    { j \in (i + 1)..Len(ls) : \A h \in starts : h <= i \/ h > j }

IsLastEntry(starts, i) == \A h \in starts : h <= i

\* the value the entry gives to key: that of its last line with the key
ValueInEntry(ls, starts, i, key) ==
    LET js == { j \in LinesOfEntry(ls, starts, i) : IsKeyLine(ls[j], key) }
    IN  IF js = {} THEN EmptyString
        ELSE ValueOfLine(ls[CHOOSE j \in js : \A k \in js : k <= j])

\* the target that entry i describes
EntryTarget(ls, starts, i) ==
    NVMeTarget(ValueInEntry(ls, starts, i, "traddr:"),
               ValueInEntry(ls, starts, i, "subnqn:"),
               EmptyString,
               ValueInEntry(ls, starts, i, "adrfam:"),
               ValueInEntry(ls, starts, i, "subtype:"),
               ValueInEntry(ls, starts, i, "treq:"),
               ValueInEntry(ls, starts, i, "portid:"),
               ValueInEntry(ls, starts, i, "trsvcid:"),
               ValueInEntry(ls, starts, i, "sectype:"),
               ValueInEntry(ls, starts, i, "trtype:"),
               EmptyString)

\* the entry has a trtype line of another transport
EntrySkipped(ls, starts, i) ==
    \E j \in LinesOfEntry(ls, starts, i) :
        IsKeyLine(ls[j], "trtype:") /\ ValueOfLine(ls[j]) # << "tcp" >>

\* the entries that yield a returned target
YieldingEntries(ls, starts) ==
    { i \in Entries(starts) :
          /\ ~EntrySkipped(ls, starts, i)
          /\ IF IsLastEntry(starts, i)
             THEN ValueInEntry(ls, starts, i, "subnqn:") # EmptyString
             ELSE i # 0 }

\* the members of a set of numbers, ascending
RECURSIVE Ascending(_)
Ascending(S) ==
    IF S = {} THEN << >>
    ELSE LET m == CHOOSE x \in S : \A y \in S : x <= y
         IN  << m >> \o Ascending(S \ {m})

\* the targets of the yielding entries, in the order of the entries
TargetsOfEntries(ls, starts) ==
    LET from == Ascending(YieldingEntries(ls, starts))
    IN  [k \in 1..Len(from) |-> EntryTarget(ls, starts, from[k])]

\* C14: the sequence discoverNVMeTCPTargets returns preserves the order of
\* the log entries: the k-th returned target is the target of the k-th entry,
\* in the order of the output, among the entries that yield a target, so a
\* target from an earlier entry stands before one from a later entry and no
\* entry yields more than one target.
C14_TargetsInEntryOrder ==
    (Returned("discover") /\ procErr = NilErr) =>
        LET ls == OutputLines(stdout)
        IN  result = TargetsOfEntries(ls, EntryStarts(ls))

\* two tcp entries with different addresses, both returned, the first first
C14_Witness ==
    /\ Returned("discover") /\ procErr = NilErr
    /\ Len(result) = 2
    /\ result[1].Portal = << "1.1.1.1" >>
    /\ result[2].Portal = << "1.1.1.2" >>
    /\ Cardinality(EntryStarts(OutputLines(stdout))) = 2

\* the loop's local variables after the last line, in the copy that ran
LoopEnd ==
    IF op = "discover_part002"
    THEN ParseLoop_part002(ParseStart, OutputLines(stdout))
    ELSE ParseLoop(ParseStart, OutputLines(stdout))

\* C15: in each copy of discoverNVMeTCPTargets, after the last line of the
\* output the entry in progress is appended to the result only if it is not
\* marked skip and its TargetNqn is non-empty; an output that ends without a
\* pending entry adds no empty trailing target.
C15_FinalFlushGuarded ==
    \A o \in DiscoverOps :
        (Returned(o) /\ procErr = NilErr) =>
            /\ result = IF ~LoopEnd.skipIteration /\
                           LoopEnd.nvmeTarget.TargetNqn # EmptyString
                        THEN Append(LoopEnd.targets, LoopEnd.nvmeTarget)
                        ELSE LoopEnd.targets
            /\ stdout = EmptyString => result = << >>

\* C16: in each copy of discoverNVMeTCPTargets an entry is marked skip
\* exactly when its transport type is not tcp and a skipped entry is never in
\* the result: every returned target has TargetType "tcp", also for entries
\* with no trtype line or with more than one.
C16_OnlyTcpReturned ==
    \A o \in DiscoverOps :
        (Returned(o) /\ procErr = NilErr) =>
            /\ LET ls == OutputLines(stdout)
                   last == CHOOSE i \in Entries(EntryStarts(ls)) :
                               IsLastEntry(EntryStarts(ls), i)
               IN  LoopEnd.skipIteration <=> EntrySkipped(ls, EntryStarts(ls), last)
            /\ \A i \in 1..Len(result) : result[i].TargetType = << "tcp" >>

\* the calls of the Real variant that run the nvme tool
NvmeOps == {"discover", "connect", "disconnect"}

\* C17: no operation retries: each call of discoverNVMeTCPTargets,
\* nvmeConnect and nvmeDisonnect starts exactly one external process and
\* returns after that process ends, whatever its outcome; a failed process,
\* a connect that exits with 114 included, is not followed by a second
\* process within the same call.
C17_NoRetry ==
    /\ [](op \in NvmeOps => (pc # "idle" /\ invocations = 1))
    /\ [][/\ (pc = "idle" /\ op' \in NvmeOps) =>
                 (pc' = "running" /\ invocations' = 1)
          /\ (pc = "running" /\ op \in NvmeOps) =>
                 (pc' = "returned" /\ op' = op /\ invocations' = 1 /\ argv' = argv)
          /\ (pc = "returned" /\ op \in NvmeOps) =>
                 (pc' = "idle" /\ op' = "none")]_vars

\* a connect on the second instance whose one process exited with 114
C17_Witness ==
    /\ Returned("connect")
    /\ self = "c2"
    /\ ExitedWith(ConnectionExistsCode)
    /\ invocations = 1

\* the lines that contain "Discovery Log Entry"
SubstringStarts(ls) ==
    { i \in 1..Len(ls) :
          HasSubstring(ls[i], << "Discovery", SP, "Log", SP, "Entry" >>) }

\* the loop treats the lines starts, and no other line, as entry boundaries:
\* such a line counts one more entry, closes the entry in progress and starts
\* an empty target; any other line leaves the count and the targets alone
TreatsAsBoundaries(ls, starts) ==
    \A i \in 1..Len(ls) :
        LET before == ParseLoop(ParseStart, SubSeq(ls, 1, i - 1))
            after == ParseLoop(ParseStart, SubSeq(ls, 1, i))
        IN  IF i \in starts
            THEN /\ after.entryCount = before.entryCount + 1
                 /\ after.nvmeTarget = ZeroTarget
                 /\ ~after.skipIteration
                 /\ after.targets \in {before.targets,
                                       Append(before.targets, before.nvmeTarget)}
            ELSE /\ after.entryCount = before.entryCount
                 /\ after.targets = before.targets

\* C18 as stated: discoverNVMeTCPTargets treats every output line that
\* contains the substring "Discovery Log Entry" as an entry boundary,
\* whatever surrounds the substring, and no other line.
C18_BoundaryIsSubstring ==
    (Returned("discover") /\ procErr = NilErr) =>
        LET ls == OutputLines(stdout)
        IN  /\ TreatsAsBoundaries(ls, SubstringStarts(ls))
            /\ result = TargetsOfEntries(ls, SubstringStarts(ls))

\* C18: discoverNVMeTCPTargets treats an output line as an entry boundary
\* exactly when the first white-space-separated field of the line is
\* "=====Discovery" and at least one more field follows it; what follows is
\* not looked at, and a line that contains "Discovery Log Entry" elsewhere is
\* no boundary.
C18_BoundaryIsFirstField ==
    (Returned("discover") /\ procErr = NilErr) =>
        LET ls == OutputLines(stdout)
        IN  /\ TreatsAsBoundaries(ls, EntryStarts(ls))
            /\ result = TargetsOfEntries(ls, EntryStarts(ls))

\* an output with a line that contains the substring and is no boundary, and
\* a boundary line that does not contain it, after an NQN that is returned
C18_Witness ==
    /\ Returned("discover") /\ procErr = NilErr
    /\ LET ls == OutputLines(stdout)
       IN  /\ SubstringStarts(ls) \ EntryStarts(ls) # {}
           /\ EntryStarts(ls) \ SubstringStarts(ls) # {}
           /\ Len(result) = 1
           /\ result[1].TargetNqn = TestNqn

====
